---- MODULE Spec2Model ----
(***************************************************************************)
(* mf-deps-manager: the version comparator, the update (reconcile)         *)
(* command, the add/show commands, the catalog refresher and the catalog   *)
(* validation started by createCLI, modelled from                          *)
(* src/src/dependency-manager.ts, src/src/update-checker.ts and            *)
(* src/src/validator.ts.                                                   *)
(*                                                                         *)
(* JSON objects are sequences of <<key, value>> pairs in insertion order   *)
(* (the order Object.entries walks).  Version strings are TLA+ strings in  *)
(* the state; Chars gives the characters of each string of the universe,   *)
(* and the comparator works on those characters as the code does.          *)
(***************************************************************************)
EXTENDS Integers, Sequences, FiniteSets, TLC

\* ------------------------------------------------------------------------
\* Bounds of the model
\* ------------------------------------------------------------------------
MaxManifestEntries == 2
MaxCatalogEntries == 2
MaxRuns == 2
MaxItems == 2
MaxDocEntries == 2
MaxCLIManifestEntries == 1

\* ------------------------------------------------------------------------
\* Strings
\* ------------------------------------------------------------------------
\* The characters of every version string the model uses.
Chars ==
     ("" :> <<>>)
  @@ ("1.0.0" :> <<"1", ".", "0", ".", "0">>)
  @@ ("1.5.0" :> <<"1", ".", "5", ".", "0">>)
  @@ ("2.0.0" :> <<"2", ".", "0", ".", "0">>)
  @@ ("3.0.0" :> <<"3", ".", "0", ".", "0">>)
  @@ ("9.0.0" :> <<"9", ".", "0", ".", "0">>)
  @@ ("10.0.0" :> <<"1", "0", ".", "0", ".", "0">>)
  @@ ("1.0" :> <<"1", ".", "0">>)
  @@ ("^1.5.0" :> <<"^", "1", ".", "5", ".", "0">>)
  @@ ("^2.0.0" :> <<"^", "2", ".", "0", ".", "0">>)
  @@ ("~2.0.0" :> <<"~", "2", ".", "0", ".", "0">>)
  @@ (">=1.0.0" :> <<">", "=", "1", ".", "0", ".", "0">>)
  @@ (">=2.0.0" :> <<">", "=", "2", ".", "0", ".", "0">>)
  @@ (">1.5.0" :> <<">", "1", ".", "5", ".", "0">>)
  @@ ("<2.0.0" :> <<"<", "2", ".", "0", ".", "0">>)
  @@ ("<=1.5.0" :> <<"<", "=", "1", ".", "5", ".", "0">>)
  @@ (">=latest" :> <<">", "=", "l", "a", "t", "e", "s", "t">>)
  @@ ("latest" :> <<"l", "a", "t", "e", "s", "t">>)

Digits == {"0", "1", "2", "3", "4", "5", "6", "7", "8", "9"}

DigitVal ==
  ("0" :> 0) @@ ("1" :> 1) @@ ("2" :> 2) @@ ("3" :> 3) @@ ("4" :> 4) @@
  ("5" :> 5) @@ ("6" :> 6) @@ ("7" :> 7) @@ ("8" :> 8) @@ ("9" :> 9)

\* String.prototype.startsWith on character sequences.
StartsWith(cs, prefix) ==
  /\ Len(cs) >= Len(prefix)
  /\ SubSeq(cs, 1, Len(prefix)) = prefix

\* str.replace(/[\^~>=<]/g, '')
StripPrefixChars(cs) ==
  SelectSeq(cs, LAMBDA c : c \notin {"^", "~", ">", "=", "<"})

\* ------------------------------------------------------------------------
\* The semver library, as far as compareVersions uses it: strict versions
\* MAJOR.MINOR.PATCH of numeric identifiers, and ranges made of one
\* comparator (an operator followed by a strict version).
\* ------------------------------------------------------------------------
RECURSIVE SplitOnDot(_)
SplitOnDot(cs) ==
  IF \A i \in 1..Len(cs) : cs[i] # "."
    THEN <<cs>>
    ELSE LET d == CHOOSE i \in 1..Len(cs) :
                    /\ cs[i] = "."
                    /\ \A j \in 1..(i - 1) : cs[j] # "."
         IN  <<SubSeq(cs, 1, d - 1)>> \o SplitOnDot(SubSeq(cs, d + 1, Len(cs)))

\* 0|[1-9]\d*
IsNumericId(cs) ==
  /\ Len(cs) >= 1
  /\ \A i \in 1..Len(cs) : cs[i] \in Digits
  /\ (Len(cs) > 1 => cs[1] # "0")

RECURSIVE NumVal(_)
NumVal(cs) ==
  IF Len(cs) = 0 THEN 0
  ELSE 10 * NumVal(SubSeq(cs, 1, Len(cs) - 1)) + DigitVal[cs[Len(cs)]]

\* new SemVer(version): ok = FALSE stands for the TypeError it throws.
ParseSemVer(cs) ==
  LET parts == SplitOnDot(cs) IN
  IF Len(parts) = 3 /\ \A i \in 1..3 : IsNumericId(parts[i])
    THEN [ok |-> TRUE, major |-> NumVal(parts[1]), minor |-> NumVal(parts[2]),
          patch |-> NumVal(parts[3])]
    ELSE [ok |-> FALSE, major |-> 0, minor |-> 0, patch |-> 0]

\* compareIdentifiers on numbers
CompareIdentifiers(a, b) == IF a = b THEN 0 ELSE IF a < b THEN -1 ELSE 1

\* SemVer.compareMain: major, then minor, then patch
CompareMain(a, b) ==
  IF CompareIdentifiers(a.major, b.major) # 0
    THEN CompareIdentifiers(a.major, b.major)
  ELSE IF CompareIdentifiers(a.minor, b.minor) # 0
    THEN CompareIdentifiers(a.minor, b.minor)
  ELSE CompareIdentifiers(a.patch, b.patch)

\* Variant of SemverGt: equal versions count as greater.
SemverGt_OrEqual(a, b) == CompareMain(a, b) >= 0

\* semver.gt(a, b) on two parsed versions
SemverGt(a, b) == CompareMain(a, b) > 0

\* The operator a comparator starts with ('' when it has none).
ComparatorOp(cs) ==
  IF StartsWith(cs, <<">", "=">>) THEN ">="
  ELSE IF StartsWith(cs, <<"<", "=">>) THEN "<="
  ELSE IF StartsWith(cs, <<">">>) THEN ">"
  ELSE IF StartsWith(cs, <<"<">>) THEN "<"
  ELSE ""

OpLen == (">=" :> 2) @@ ("<=" :> 2) @@ (">" :> 1) @@ ("<" :> 1) @@ ("" :> 0)

\* semver.satisfies(version, range): FALSE when the range or the version
\* does not parse (both errors are caught inside the library).
SemverSatisfies(version, range) ==
  LET op == ComparatorOp(range)
      rv == ParseSemVer(SubSeq(range, OpLen[op] + 1, Len(range)))
      v  == ParseSemVer(version)
  IN  /\ rv.ok
      /\ v.ok
      /\ CASE op = ">=" -> CompareMain(v, rv) >= 0
           [] op = "<=" -> CompareMain(v, rv) <= 0
           [] op = ">"  -> CompareMain(v, rv) > 0
           [] op = "<"  -> CompareMain(v, rv) < 0
           [] OTHER     -> CompareMain(v, rv) = 0

\* ------------------------------------------------------------------------
\* DependencyManager.compareVersions
\* ------------------------------------------------------------------------
\* isRangeSatisfied is "true", "false" or "undefined"; threw = TRUE stands
\* for the TypeError semver.gt throws on a version it cannot parse.

\* Variant of IsRangeDeclaration: the tests for <= and < are missing.
IsRangeDeclaration_OnlyGreater(cs) ==
  \/ StartsWith(cs, <<">", "=">>)
  \/ StartsWith(cs, <<">">>)

\* The test of the first branch: current starts with >=, <=, > or <.
IsRangeDeclaration(cs) ==
  \/ StartsWith(cs, <<">", "=">>)
  \/ StartsWith(cs, <<"<", "=">>)
  \/ StartsWith(cs, <<">">>)
  \/ StartsWith(cs, <<"<">>)

compareVersions(current, target) ==
  LET cur == Chars[current]
      tgt == Chars[target]
  IN
  IF IsRangeDeclaration(cur)
    THEN [threw |-> FALSE, isDowngrade |-> FALSE,
          isRangeSatisfied |-> IF SemverSatisfies(tgt, cur) THEN "true" ELSE "false"]
    ELSE LET cleanCurrent == ParseSemVer(StripPrefixChars(cur))
             cleanTarget  == ParseSemVer(StripPrefixChars(tgt))
         IN  IF cleanCurrent.ok /\ cleanTarget.ok
               THEN [threw |-> FALSE,
                     isDowngrade |-> SemverGt(cleanCurrent, cleanTarget),
                     isRangeSatisfied |-> "undefined"]
               ELSE [threw |-> TRUE, isDowngrade |-> FALSE,
                     isRangeSatisfied |-> "undefined"]

\* ------------------------------------------------------------------------
\* JSON objects: sequences of <<key, value>> pairs in insertion order
\* ------------------------------------------------------------------------
Keys(o) == {o[i][1] : i \in 1..Len(o)}

Has(o, k) == \E i \in 1..Len(o) : o[i][1] = k

Get(o, k) == o[CHOOSE i \in 1..Len(o) : o[i][1] = k][2]

\* o[k] = v: an existing key keeps its place, a new key goes last.
Put(o, k, v) ==
  IF Has(o, k)
    THEN [i \in 1..Len(o) |-> IF o[i][1] = k THEN <<k, v>> ELSE o[i]]
    ELSE Append(o, <<k, v>>)

\* JavaScript truthiness of catalog[pkg]: defined and not the empty string.
Truthy(o, k) == Has(o, k) /\ Get(o, k) # ""

\* ------------------------------------------------------------------------
\* The universe of the model
\* ------------------------------------------------------------------------
Pkgs == {"react", "lodash"}

\* Category files in the order readdir lists them and the configuration
\* names them.
Categories == <<"core", "ui">>

CategorySet == {Categories[i] : i \in 1..Len(Categories)}

\* dependencyTypes, in the order update walks them
DependencyTypes == <<"dependencies", "devDependencies", "peerDependencies">>

DepTypeSet == {DependencyTypes[i] : i \in 1..3}

\* Declarations a project manifest starts with.
ManifestVersions == {"2.0.0", "^2.0.0", ">=1.0.0", ">=2.0.0", "latest"}

\* Versions a catalog file starts with.
CatalogVersions == {"1.5.0", "3.0.0"}

\* Versions the registry answers with.
RegistryVersions == {"1.5.0", "3.0.0"}

\* What the user may type at a confirmation prompt.
Answers == {"y", "Y", "n", "yes"}

\* answer.toLowerCase()
ToLowerCase == ("y" :> "y") @@ ("Y" :> "y") @@ ("n" :> "n") @@ ("yes" :> "yes")

AbsentBucket == [present |-> FALSE, entries |-> <<>>]

NoManifest ==
  [dependencies |-> AbsentBucket, devDependencies |-> AbsentBucket,
   peerDependencies |-> AbsentBucket]

NoFile == [exists |-> FALSE, json |-> <<>>]

NoManifestFile == [exists |-> FALSE, json |-> NoManifest]

\* All objects over the given keys and values with at most n entries.
RECURSIVE ObjectsUpTo(_, _, _)
ObjectsUpTo(keys, vals, n) ==
  IF n = 0 THEN {<<>>}
  ELSE LET shorter == ObjectsUpTo(keys, vals, n - 1)
           ext == {t \in {x \in shorter : Len(x) = n - 1} \X keys \X vals :
                     t[2] \notin Keys(t[1])}
       IN  shorter \cup {Append(t[1], <<t[2], t[3]>>) : t \in ext}

\* ------------------------------------------------------------------------
\* State
\* ------------------------------------------------------------------------
VARIABLES
  manifestFile,   \* package.json of the working directory: [exists, json]
  catalogFiles,   \* <category>.json of the catalog directory: category -> [exists, json]
  backupFiles,    \* <category>.json.backup: category -> [exists, json]
  cmd,            \* the command being run
  pc,             \* where the command is
  outcome,        \* "running", "ok" (the promise resolved) or "error" (it rejected)
  runs,           \* commands started so far
  prev,           \* what the previous command was and how it ended
  packageJson,    \* update/add: the manifest in memory
  updates,        \* update: the pending changes, one object per dependency type
  hasUpdates,     \* update: hasUpdates
  cursor,         \* update: position in the apply loop; add: position in items
  prompts,        \* confirmation prompts issued by this command, with the answers
  fsLog,          \* file operations of this command, in order
  console,        \* messages this command printed, in order
  startManifest,  \* the manifest file as it was when this command started
  startCatalogs,  \* the catalog files as they were when this command started
  catIdx,         \* checkAll/updateAll: position in categories
  deps,           \* updateCategory: the catalog read from the file
  updatedDeps,    \* updateCategory: updatedDeps
  updateCount,    \* updateCategory: updateCount
  lookups,        \* registry lookups of this command, in order
  cvCurrent,      \* comparator harness: the current declaration
  cvTarget,       \* comparator harness: the target version
  cvResult,       \* comparator harness: what compareVersions returned
  rawCatalog,     \* category -> what the file parses to when it is not a catalog of strings
  valRun,         \* validateCatalog: the process (number of the command) it was called in
  valPc,          \* validateCatalog: where it is
  valIdx,         \* validateCatalog: position in categories
  valMissing,     \* validateCatalog: missingCategories
  valError        \* validateCatalog: the error it rejected with

fsVars == <<manifestFile, catalogFiles, backupFiles>>
ctlVars == <<cmd, pc, outcome, runs, prev>>
updateVars == <<packageJson, updates, hasUpdates, cursor>>
logVars == <<prompts, fsLog, console, startManifest, startCatalogs>>
refreshVars == <<catIdx, deps, updatedDeps, updateCount, lookups>>
cvVars == <<cvCurrent, cvTarget, cvResult>>
valVars == <<rawCatalog, valRun, valPc, valIdx, valMissing, valError>>

vars == <<fsVars, ctlVars, updateVars, logVars, refreshVars, cvVars, valVars>>

\* config.defaultBehavior with no entry at all
NoDefaultBehavior == [c \in CategorySet |-> "unset"]

NoCmd ==
  [name |-> "none", dryRun |-> FALSE, items |-> <<>>,
   targetType |-> "dependencies", categories |-> <<>>,
   defaultBehavior |-> NoDefaultBehavior]

\* A category file that holds a catalog: its content is in catalogFiles.
NoRaw == [kind |-> "catalog", entries |-> <<>>]

NoError == [kind |-> "none", categories |-> <<>>, pkg |-> ""]

NoUpdates ==
  [dependencies |-> <<>>, devDependencies |-> <<>>, peerDependencies |-> <<>>]

NoPrev == [name |-> "none", dryRun |-> FALSE, outcome |-> "ok",
           prompts |-> <<>>, console |-> <<>>]

NoResult == [threw |-> FALSE, isDowngrade |-> FALSE, isRangeSatisfied |-> "undefined"]

\* Everything but the files and the count of commands, as it is before a
\* command has run.
InitMemory ==
  /\ backupFiles = [c \in CategorySet |-> NoFile]
  /\ cmd = NoCmd
  /\ pc = "idle"
  /\ outcome = "ok"
  /\ prev = NoPrev
  /\ packageJson = NoManifest
  /\ updates = NoUpdates
  /\ hasUpdates = FALSE
  /\ cursor = 0
  /\ prompts = <<>>
  /\ fsLog = <<>>
  /\ console = <<>>
  /\ startManifest = manifestFile
  /\ startCatalogs = catalogFiles
  /\ catIdx = 0
  /\ deps = <<>>
  /\ updatedDeps = <<>>
  /\ updateCount = 0
  /\ lookups = <<>>
  /\ cvCurrent = ""
  /\ cvTarget = ""
  /\ cvResult = NoResult
  /\ valPc = "none"
  /\ valIdx = 0
  /\ valMissing = <<>>
  /\ valError = NoError

\* Everything but the file system, as it is before any command has run.
InitProcess ==
  /\ rawCatalog = [c \in CategorySet |-> NoRaw]
  /\ runs = 0
  /\ valRun = 0
  /\ InitMemory

\* The same when one command only is to be run.
InitLastCommand ==
  /\ runs = MaxRuns - 1
  /\ valRun = MaxRuns - 1
  /\ InitMemory

\* A new command starts: a fresh process, the file system as the last left it.
StartCommand(c) ==
  /\ pc \in {"idle", "done"}
  /\ runs < MaxRuns
  /\ cmd' = c
  /\ runs' = runs + 1
  /\ prev' = [name |-> cmd.name, dryRun |-> cmd.dryRun, outcome |-> outcome,
              prompts |-> prompts, console |-> console]
  /\ startManifest' = manifestFile
  /\ startCatalogs' = catalogFiles

\* ------------------------------------------------------------------------
\* Manifests and catalogs the model starts from
\* ------------------------------------------------------------------------
Bucket(o) == IF o = <<>> THEN AbsentBucket ELSE [present |-> TRUE, entries |-> o]

EntryCount(m) ==
  Len(m.dependencies.entries) + Len(m.devDependencies.entries)
    + Len(m.peerDependencies.entries)

\* The manifests over the given packages and declarations with at most n
\* entries; a bucket without entries is absent.
ManifestsOver(pkgs, vers, n) ==
  LET objs == ObjectsUpTo(pkgs, vers, n) IN
  {m \in {[dependencies |-> Bucket(a), devDependencies |-> Bucket(b),
           peerDependencies |-> Bucket(c)] : a \in objs, b \in objs, c \in objs} :
     EntryCount(m) <= n}

ManifestFilesOver(pkgs, vers, n) ==
  {NoManifestFile} \cup {[exists |-> TRUE, json |-> m] : m \in ManifestsOver(pkgs, vers, n)}

CatalogCount(cf) ==
  LET RECURSIVE Sum(_)
      Sum(i) == IF i = 0 THEN 0 ELSE Len(cf[Categories[i]].json) + Sum(i - 1)
  IN  Sum(Len(Categories))

\* The catalog directories over the given packages and versions with at most
\* n entries in all; a category file may be missing.
CatalogStatesOver(pkgs, vers, n) ==
  LET files == {NoFile} \cup {[exists |-> TRUE, json |-> o] : o \in ObjectsUpTo(pkgs, vers, n)} IN
  {cf \in [CategorySet -> files] : CatalogCount(cf) <= n}

\* ------------------------------------------------------------------------
\* DependencyManager.update
\* ------------------------------------------------------------------------
\* readdir + readFile + JSON.parse: the catalogs of the files present, as
\* <<category, catalog>> pairs in directory order.
LoadAllCatalogs(cf) ==
  LET RECURSIVE Load(_)
      Load(i) ==
        IF i > Len(Categories) THEN <<>>
        ELSE (IF cf[Categories[i]].exists
                THEN <<<<Categories[i], cf[Categories[i]].json>>>>
                ELSE <<>>) \o Load(i + 1)
  IN  Load(1)

\* The categories whose catalog declares pkg with a version that differs
\* textually from the current declaration (the test of the inner loop).
MatchingCategories(catalogs, pkg, currentVersion) ==
  SelectSeq(catalogs,
            LAMBDA c : Truthy(c[2], pkg) /\ Get(c[2], pkg) # currentVersion)

\* The UpdateInfo the inner loop stores for one matching category.
UpdateInfo(c, pkg, currentVersion) ==
  LET comparison == compareVersions(currentVersion, Get(c[2], pkg)) IN
  [current |-> currentVersion, new |-> Get(c[2], pkg), category |-> c[1],
   isDowngrade |-> comparison.isDowngrade,
   isRangeSatisfied |-> comparison.isRangeSatisfied]

\* Variant of StoredCategory: the first matching category is kept.
StoredCategory_First(matching) == matching[1]

\* updates[depType][pkg] = {...} runs once per matching category: the entry
\* left in updates[depType][pkg] is the one of the last matching category.
StoredCategory(matching) == matching[Len(matching)]

\* Variant of UpdatesForPackage: one entry per matching category.
UpdatesForPackage_PerCategory(pkg, currentVersion, matching) ==
  [k \in 1..Len(matching) |-> <<pkg, UpdateInfo(matching[k], pkg, currentVersion)>>]

\* What the inner loop leaves in updates[depType] for one package: a single
\* entry under the key pkg.
UpdatesForPackage(pkg, currentVersion, matching) ==
  <<<<pkg, UpdateInfo(StoredCategory(matching), pkg, currentVersion)>>>>

\* The loop over one bucket of the manifest: the updates object it builds,
\* and whether compareVersions threw on the way.
RECURSIVE ScanEntries(_, _, _)
ScanEntries(entries, catalogs, i) ==
  IF i > Len(entries) THEN [updates |-> <<>>, threw |-> FALSE]
  ELSE LET pkg == entries[i][1]
           currentVersion == entries[i][2]
           matching == MatchingCategories(catalogs, pkg, currentVersion)
           threwHere == \E k \in 1..Len(matching) :
                          compareVersions(currentVersion, Get(matching[k][2], pkg)).threw
           rest == ScanEntries(entries, catalogs, i + 1)
       IN  IF threwHere THEN [updates |-> <<>>, threw |-> TRUE]
           ELSE IF matching = <<>> THEN rest
           ELSE [updates |->
                   UpdatesForPackage(pkg, currentVersion, matching) \o rest.updates,
                 threw |-> rest.threw]

ScanBucket(bucket, catalogs) ==
  IF bucket.present
    THEN ScanEntries(bucket.entries, catalogs, 1)
    ELSE [updates |-> <<>>, threw |-> FALSE]

\* Object.entries(updates) flattened: the order of the apply loop.
Pending(u) ==
  LET Of(depType) ==
        [i \in 1..Len(u[depType]) |->
           [depType |-> depType, pkg |-> u[depType][i][1], info |-> u[depType][i][2]]]
  IN  Of("dependencies") \o Of("devDependencies") \o Of("peerDependencies")

\* Variant of promptUser: anything but "n" counts as consent.
promptUser_AnythingButNo(answer) == ToLowerCase[answer] # "n"

\* promptUser: resolve(answer.toLowerCase() === 'y')
promptUser(answer) == ToLowerCase[answer] = "y"

\* Variant of AfterScan: the dry-run return is missing.
AfterScan_NoDryRunReturn(dryRun, has) == IF ~has THEN "done" ELSE "apply"

\* Where update goes after the scan: the two early returns, else the apply loop.
AfterScan(dryRun, has) ==
  IF ~has THEN "done" ELSE IF dryRun THEN "done" ELSE "apply"

\* Variant of ShouldUpdate: the satisfied-range test is missing.
ShouldUpdate_NoRangeSkip(depType, info, confirmed) == confirmed

\* shouldUpdate at the end of one round of the apply loop; confirmed is the
\* prompt's result, TRUE when no prompt was issued.
ShouldUpdate(depType, info, confirmed) ==
  IF depType = "peerDependencies" /\ info.isRangeSatisfied = "true"
    THEN FALSE
    ELSE confirmed

\* Variant of SetDeclaration: the assignment is lost.
SetDeclaration_Lost(m, depType, pkg, version) == m

\* packageJson[depType][pkg] = version
SetDeclaration(m, depType, pkg, version) ==
  [m EXCEPT ![depType] = [present |-> TRUE, entries |-> Put(@.entries, pkg, version)]]

\* update, from loadPackageJson to the end of the report: loads the manifest
\* and the catalogs, builds updates, and takes one of the early returns or
\* enters the apply loop.
UpdateScan ==
  \E dryRun \in BOOLEAN :
    /\ StartCommand([NoCmd EXCEPT !.name = "update", !.dryRun = dryRun])
    /\ prompts' = <<>>
    /\ cursor' = 1
    /\ UNCHANGED <<fsVars, refreshVars, cvVars, valVars>>
    /\ IF ~manifestFile.exists
         THEN /\ pc' = "done"
              /\ outcome' = "error"
              /\ packageJson' = NoManifest
              /\ updates' = NoUpdates
              /\ hasUpdates' = FALSE
              /\ fsLog' = <<[op |-> "readFail", file |-> "package.json"]>>
              /\ console' = <<>>
         ELSE LET catalogs == LoadAllCatalogs(catalogFiles)
                  d == ScanBucket(manifestFile.json.dependencies, catalogs)
                  v == ScanBucket(manifestFile.json.devDependencies, catalogs)
                  p == ScanBucket(manifestFile.json.peerDependencies, catalogs)
                  threw == d.threw \/ v.threw \/ p.threw
                  u == [dependencies |-> d.updates, devDependencies |-> v.updates,
                        peerDependencies |-> p.updates]
                  has == Pending(u) # <<>>
              IN  /\ packageJson' = manifestFile.json
                  /\ fsLog' = <<[op |-> "read", file |-> "package.json"]>>
                                \o [i \in 1..Len(catalogs) |->
                                      [op |-> "read", file |-> catalogs[i][1]]]
                  /\ IF threw
                       THEN /\ pc' = "done"
                            /\ outcome' = "error"
                            /\ updates' = NoUpdates
                            /\ hasUpdates' = FALSE
                            /\ console' = <<>>
                       ELSE /\ pc' = AfterScan(dryRun, has)
                            /\ outcome' = IF AfterScan(dryRun, has) = "done"
                                            THEN "ok" ELSE "running"
                            /\ updates' = u
                            /\ hasUpdates' = has
                            /\ console' = IF ~has THEN <<"up to date">>
                                          ELSE IF dryRun THEN <<"updates available", "dry run">>
                                          ELSE <<"updates available">>

\* One round of the apply loop, for the pending change at the cursor.
ApplyChange(item, confirmed) ==
  /\ packageJson' =
       IF ShouldUpdate(item.depType, item.info, confirmed)
         THEN SetDeclaration(packageJson, item.depType, item.pkg, item.info.new)
         ELSE packageJson
  /\ console' =
       IF item.depType = "peerDependencies" /\ item.info.isRangeSatisfied = "true"
         THEN Append(console, "skipping " \o item.pkg)
         ELSE console
  /\ cursor' = cursor + 1
  /\ UNCHANGED <<fsVars, ctlVars, updates, hasUpdates, fsLog, startManifest,
                 startCatalogs, refreshVars, cvVars, valVars>>

\* A round for a downgrade: the user is asked first.
UpdatePrompt ==
  /\ cmd.name = "update"
  /\ pc = "apply"
  /\ cursor <= Len(Pending(updates))
  /\ Pending(updates)[cursor].info.isDowngrade
  /\ \E answer \in Answers :
       LET item == Pending(updates)[cursor] IN
       /\ prompts' = Append(prompts,
                            [depType |-> item.depType, pkg |-> item.pkg, answer |-> answer])
       /\ ApplyChange(item, promptUser(answer))

\* A round for a change that is not a downgrade: nobody is asked.
UpdateNoPrompt ==
  /\ cmd.name = "update"
  /\ pc = "apply"
  /\ cursor <= Len(Pending(updates))
  /\ ~Pending(updates)[cursor].info.isDowngrade
  /\ prompts' = prompts
  /\ ApplyChange(Pending(updates)[cursor], TRUE)

\* savePackageJson at the end of update
UpdateSave ==
  /\ cmd.name = "update"
  /\ pc = "apply"
  /\ cursor > Len(Pending(updates))
  /\ manifestFile' = [exists |-> TRUE, json |-> packageJson]
  /\ fsLog' = Append(fsLog, [op |-> "write", file |-> "package.json"])
  /\ console' = Append(console, "package.json updated")
  /\ pc' = "done"
  /\ outcome' = "ok"
  /\ UNCHANGED <<catalogFiles, backupFiles, cmd, runs, prev, updateVars, prompts,
                 startManifest, startCatalogs, refreshVars, cvVars, valVars>>

InitUpdate ==
  /\ manifestFile \in ManifestFilesOver({"react"}, ManifestVersions, MaxManifestEntries)
  /\ catalogFiles \in CatalogStatesOver({"react"}, CatalogVersions, MaxCatalogEntries)
  /\ InitProcess

NextUpdate == UpdateScan \/ UpdatePrompt \/ UpdateNoPrompt \/ UpdateSave

SpecUpdate == InitUpdate /\ [][NextUpdate]_vars

\* ------------------------------------------------------------------------
\* compareVersions on its own: the comparator applied to one pair
\* ------------------------------------------------------------------------
CompareCurrents == DOMAIN Chars \ {""}

CompareTargets ==
  {"1.0.0", "1.5.0", "2.0.0", "3.0.0", "9.0.0", "10.0.0", "^1.5.0", "^2.0.0",
   ">=2.0.0", "1.0", "latest"}

Compare ==
  /\ pc = "idle"
  /\ cvResult' = compareVersions(cvCurrent, cvTarget)
  /\ pc' = "done"
  /\ UNCHANGED <<fsVars, cmd, outcome, runs, prev, updateVars, logVars, refreshVars,
                 cvCurrent, cvTarget, valVars>>

InitCompare ==
  /\ manifestFile = NoManifestFile
  /\ catalogFiles = [c \in CategorySet |-> NoFile]
  /\ backupFiles = [c \in CategorySet |-> NoFile]
  /\ cmd = NoCmd
  /\ pc = "idle"
  /\ outcome = "ok"
  /\ runs = 0
  /\ prev = NoPrev
  /\ packageJson = NoManifest
  /\ updates = NoUpdates
  /\ hasUpdates = FALSE
  /\ cursor = 0
  /\ prompts = <<>>
  /\ fsLog = <<>>
  /\ console = <<>>
  /\ startManifest = manifestFile
  /\ startCatalogs = catalogFiles
  /\ catIdx = 0
  /\ deps = <<>>
  /\ updatedDeps = <<>>
  /\ updateCount = 0
  /\ lookups = <<>>
  /\ cvCurrent \in CompareCurrents
  /\ cvTarget \in CompareTargets
  /\ cvResult = NoResult
  /\ rawCatalog = [c \in CategorySet |-> NoRaw]
  /\ valRun = 0
  /\ valPc = "none"
  /\ valIdx = 0
  /\ valMissing = <<>>
  /\ valError = NoError

NextCompare == Compare

SpecCompare == InitCompare /\ [][NextCompare]_vars

\* ------------------------------------------------------------------------
\* UpdateChecker.updateCategory / updateAll  (command update-catalog)
\* ------------------------------------------------------------------------
\* The category being processed.
CurrentCategory == cmd.categories[catIdx]

\* The end of updateCategory: updateAll goes on with the next category, and
\* the command ends after the last one.
NextCategory ==
  /\ catIdx' = catIdx + 1
  /\ pc' = IF catIdx + 1 > Len(cmd.categories) THEN "done" ELSE "read"
  /\ outcome' = IF catIdx + 1 > Len(cmd.categories) THEN "ok" ELSE "running"

\* The update-catalog action: updateCategory(category) when a category is
\* given, else updateAll(config.categories).
UpdateCatalogStart ==
  \E cats \in {Categories} \cup {<<c>> : c \in CategorySet} :
    /\ StartCommand([NoCmd EXCEPT !.name = "update-catalog", !.categories = cats])
    /\ pc' = "read"
    /\ outcome' = "running"
    /\ catIdx' = 1
    /\ deps' = <<>>
    /\ updatedDeps' = <<>>
    /\ updateCount' = 0
    /\ lookups' = <<>>
    /\ cursor' = 1
    /\ prompts' = <<>>
    /\ fsLog' = <<>>
    /\ console' = <<>>
    /\ UNCHANGED <<fsVars, packageJson, updates, hasUpdates, cvVars, valVars>>

\* readFile + JSON.parse at the top of updateCategory; a failure lands in the
\* catch at the bottom, which prints and returns.
UpdateCategoryRead ==
  /\ cmd.name = "update-catalog"
  /\ pc = "read"
  /\ IF catalogFiles[CurrentCategory].exists
       THEN /\ deps' = catalogFiles[CurrentCategory].json
            /\ updatedDeps' = <<>>
            /\ updateCount' = 0
            /\ cursor' = 1
            /\ fsLog' = Append(fsLog, [op |-> "read", file |-> CurrentCategory])
            /\ console' = Append(console, "updating " \o CurrentCategory)
            /\ pc' = "lookup"
            /\ UNCHANGED <<catIdx, outcome>>
       ELSE /\ fsLog' = Append(fsLog, [op |-> "readFail", file |-> CurrentCategory])
            /\ console' = Append(console, "file not found " \o CurrentCategory)
            /\ NextCategory
            /\ UNCHANGED <<deps, updatedDeps, updateCount, cursor>>
  /\ UNCHANGED <<fsVars, cmd, runs, prev, packageJson, updates, hasUpdates, prompts,
                 startManifest, startCatalogs, lookups, cvVars, valVars>>

\* Variant of KeepOnFailure: the failed package is left out of the result.
KeepOnFailure_Dropped(ud, pkg, currentVersion) == ud

\* The catch of the lookup: updatedDeps[pkg] = currentVersion
KeepOnFailure(ud, pkg, currentVersion) == Put(ud, pkg, currentVersion)

\* One round of the lookup loop in which npm view answers.
LookupOk ==
  /\ cmd.name = "update-catalog"
  /\ pc = "lookup"
  /\ cursor <= Len(deps)
  /\ \E latestVersion \in RegistryVersions :
       LET pkg == deps[cursor][1]
           currentVersion == deps[cursor][2]
       IN  /\ updatedDeps' = Put(updatedDeps, pkg, latestVersion)
           /\ updateCount' = IF latestVersion # currentVersion
                               THEN updateCount + 1 ELSE updateCount
           /\ lookups' = Append(lookups,
                                [category |-> CurrentCategory, pkg |-> pkg, ok |-> TRUE,
                                 version |-> latestVersion, was |-> currentVersion])
  /\ cursor' = cursor + 1
  /\ UNCHANGED <<fsVars, ctlVars, packageJson, updates, hasUpdates, logVars, catIdx,
                 deps, cvVars, valVars>>

\* One round of the lookup loop in which npm view fails.
LookupFail ==
  /\ cmd.name = "update-catalog"
  /\ pc = "lookup"
  /\ cursor <= Len(deps)
  /\ LET pkg == deps[cursor][1]
         currentVersion == deps[cursor][2]
     IN  /\ updatedDeps' = KeepOnFailure(updatedDeps, pkg, currentVersion)
         /\ lookups' = Append(lookups,
                              [category |-> CurrentCategory, pkg |-> pkg, ok |-> FALSE,
                               version |-> "", was |-> currentVersion])
         /\ console' = Append(console, "error updating " \o pkg)
  /\ cursor' = cursor + 1
  /\ UNCHANGED <<fsVars, ctlVars, packageJson, updates, hasUpdates, prompts, fsLog,
                 startManifest, startCatalogs, catIdx, deps, updateCount, cvVars, valVars>>

\* Variant of NeedsWrite: the catalog is persisted whatever the count.
NeedsWrite_Always(count) == TRUE

\* if (updateCount > 0)
NeedsWrite(count) == count > 0

\* fs.copyFile(filePath, backupPath)
BackupCatalog ==
  /\ cmd.name = "update-catalog"
  /\ pc = "lookup"
  /\ cursor > Len(deps)
  /\ NeedsWrite(updateCount)
  /\ backupFiles' = [backupFiles EXCEPT ![CurrentCategory] = catalogFiles[CurrentCategory]]
  /\ fsLog' = Append(fsLog, [op |-> "copy", file |-> CurrentCategory])
  /\ pc' = "write"
  /\ UNCHANGED <<manifestFile, catalogFiles, cmd, outcome, runs, prev, updateVars,
                 prompts, console, startManifest, startCatalogs, refreshVars, cvVars, valVars>>

\* fs.writeFile(filePath, JSON.stringify(updatedDeps)) and the end of updateCategory
WriteCatalog ==
  /\ cmd.name = "update-catalog"
  /\ pc = "write"
  /\ catalogFiles' = [catalogFiles EXCEPT ![CurrentCategory] =
                        [exists |-> TRUE, json |-> updatedDeps]]
  /\ fsLog' = Append(fsLog, [op |-> "write", file |-> CurrentCategory])
  /\ console' = Append(console, "updated " \o CurrentCategory)
  /\ NextCategory
  /\ UNCHANGED <<manifestFile, backupFiles, cmd, runs, prev, updateVars, prompts,
                 startManifest, startCatalogs, deps, updatedDeps, updateCount, lookups,
                 cvVars, valVars>>

\* The else branch: no updates needed, nothing is written.
NoCatalogChange ==
  /\ cmd.name = "update-catalog"
  /\ pc = "lookup"
  /\ cursor > Len(deps)
  /\ ~NeedsWrite(updateCount)
  /\ console' = Append(console, "no updates needed " \o CurrentCategory)
  /\ NextCategory
  /\ UNCHANGED <<fsVars, cmd, runs, prev, updateVars, prompts, fsLog, startManifest,
                 startCatalogs, deps, updatedDeps, updateCount, lookups, cvVars, valVars>>

\* ------------------------------------------------------------------------
\* UpdateChecker.checkAll  (command check-updates)
\* ------------------------------------------------------------------------
CheckUpdatesStart ==
  /\ StartCommand([NoCmd EXCEPT !.name = "check-updates", !.categories = Categories])
  /\ pc' = "check"
  /\ outcome' = "running"
  /\ catIdx' = 1
  /\ deps' = <<>>
  /\ updatedDeps' = <<>>
  /\ updateCount' = 0
  /\ lookups' = <<>>
  /\ cursor' = 1
  /\ prompts' = <<>>
  /\ fsLog' = <<>>
  /\ console' = <<>>
  /\ UNCHANGED <<fsVars, packageJson, updates, hasUpdates, cvVars, valVars>>

\* One round of the loop over categories: the file is read and every package
\* looked up, or the file cannot be read and the category is skipped.
\* updateCount stands for totalUpdates.
CheckCategory ==
  /\ cmd.name = "check-updates"
  /\ pc = "check"
  /\ catIdx <= Len(cmd.categories)
  /\ IF catalogFiles[CurrentCategory].exists
       THEN \E answer \in [1..Len(catalogFiles[CurrentCategory].json)
                            -> RegistryVersions \cup {"error"}] :
              LET d == catalogFiles[CurrentCategory].json
                  found == {i \in 1..Len(d) : answer[i] # "error" /\ answer[i] # d[i][2]}
              IN  /\ deps' = d
                  /\ lookups' = lookups \o
                       [i \in 1..Len(d) |->
                          [category |-> CurrentCategory, pkg |-> d[i][1],
                           ok |-> answer[i] # "error",
                           version |-> IF answer[i] = "error" THEN "" ELSE answer[i],
                           was |-> d[i][2]]]
                  /\ updateCount' = updateCount + Cardinality(found)
                  /\ fsLog' = Append(fsLog, [op |-> "read", file |-> CurrentCategory])
                  /\ console' = Append(console, "checking " \o CurrentCategory)
       ELSE /\ fsLog' = Append(fsLog, [op |-> "readFail", file |-> CurrentCategory])
            /\ console' = Append(console, "file not found, skipping " \o CurrentCategory)
            /\ UNCHANGED <<deps, lookups, updateCount>>
  /\ catIdx' = catIdx + 1
  /\ UNCHANGED <<fsVars, ctlVars, updateVars, prompts, startManifest, startCatalogs,
                 updatedDeps, cvVars, valVars>>

\* The summary after the loop.
CheckSummary ==
  /\ cmd.name = "check-updates"
  /\ pc = "check"
  /\ catIdx > Len(cmd.categories)
  /\ console' = Append(console, "summary")
  /\ pc' = "done"
  /\ outcome' = "ok"
  /\ UNCHANGED <<fsVars, cmd, runs, prev, updateVars, prompts, fsLog, startManifest,
                 startCatalogs, refreshVars, cvVars, valVars>>

InitRefresh ==
  /\ manifestFile = NoManifestFile
  /\ catalogFiles \in CatalogStatesOver(Pkgs, CatalogVersions, MaxCatalogEntries)
  /\ InitProcess

NextRefresh ==
  \/ UpdateCatalogStart
  \/ UpdateCategoryRead
  \/ LookupOk
  \/ LookupFail
  \/ BackupCatalog
  \/ WriteCatalog
  \/ NoCatalogChange
  \/ CheckUpdatesStart
  \/ CheckCategory
  \/ CheckSummary

SpecRefresh == InitRefresh /\ [][NextRefresh]_vars

\* ------------------------------------------------------------------------
\* validateCatalog, started by createCLI and not awaited
\* ------------------------------------------------------------------------
\* A parsed category file is [kind, entries]: kind is what JSON.parse gives
\* ("object", "array", "null", "string", "number", "boolean", or "invalid"
\* when it throws a SyntaxError), entries is Object.entries of it as
\* <<key, typeof value>> pairs.
ValueTypes == {"string", "number", "null"}

\* The keys Object.entries gives for an array.
ArrayIndex == <<"0", "1", "2", "3">>

RECURSIVE ArraysUpTo(_)
ArraysUpTo(n) ==
  IF n = 0 THEN {<<>>}
  ELSE LET shorter == ArraysUpTo(n - 1) IN
       shorter \cup {Append(a, <<ArrayIndex[n], t>>) :
                       a \in {x \in shorter : Len(x) = n - 1}, t \in ValueTypes}

\* What a category file may hold besides a catalog of strings.
RawDocuments ==
     {[kind |-> "object", entries |-> o] : o \in ObjectsUpTo(Pkgs, ValueTypes, MaxDocEntries)}
  \cup {[kind |-> "array", entries |-> a] : a \in ArraysUpTo(MaxDocEntries)}
  \cup {[kind |-> k, entries |-> <<>>] : k \in {"null", "string", "number", "boolean", "invalid"}}

\* readFile + JSON.parse of <category>.json as validateCatalog sees it.
ParsedContent(c) ==
  IF rawCatalog[c].kind = "catalog"
    THEN [kind |-> "object",
          entries |-> [i \in 1..Len(catalogFiles[c].json) |->
                         <<catalogFiles[c].json[i][1], "string">>]]
    ELSE rawCatalog[c]

\* typeof json === 'object' && json !== null: true of objects and of arrays.
IsObject(doc) == doc.kind \in {"object", "array"}

\* The body of the format loop for one category: the error it throws, or
\* NoError.
FormatError(c, doc) ==
  IF doc.kind = "invalid"
    THEN [kind |-> "invalidJson", categories |-> <<c>>, pkg |-> ""]
  ELSE IF ~IsObject(doc)
    THEN [kind |-> "notObject", categories |-> <<c>>, pkg |-> ""]
  ELSE IF \E i \in 1..Len(doc.entries) : doc.entries[i][2] # "string"
    THEN LET first == CHOOSE i \in 1..Len(doc.entries) :
                        /\ doc.entries[i][2] # "string"
                        /\ \A j \in 1..(i - 1) : doc.entries[j][2] = "string"
         IN  [kind |-> "notString", categories |-> <<c>>, pkg |-> doc.entries[first][1]]
  ELSE NoError

\* The promise rejects and nobody handles it: the process ends with an
\* uncaught error (the default of every supported Node version), whatever
\* the command was doing.
ValidationRejects(error) ==
  /\ valPc' = "rejected"
  /\ valError' = error
  /\ pc' = "done"
  /\ outcome' = "error"

\* createCLI: validateCatalog is called and runs up to its first await; the
\* promise it returns is dropped.
CreateCLI ==
  /\ pc \in {"idle", "done"}
  /\ runs < MaxRuns
  /\ valRun = runs
  /\ valPc \in {"none", "ok", "rejected"}
  /\ valRun' = runs + 1
  /\ valPc' = "dir"
  /\ valIdx' = 1
  /\ valMissing' = <<>>
  /\ valError' = NoError
  /\ UNCHANGED <<fsVars, ctlVars, updateVars, logVars, refreshVars, cvVars, rawCatalog>>

\* cli.run(argv) has been reached: program.parse calls the command's action
\* in the same turn of the event loop, before any await of validateCatalog
\* can resume.
CLIReady == valRun = runs + 1

\* validateCatalog resumes only after the synchronous part of the program
\* (createCLI, cli.run and the action up to its first await) is over.
ValidationResumes == valRun = runs

\* await fs.access(catalogPath): the catalog directory exists.
ValidateAccessDir ==
  /\ ValidationResumes
  /\ valPc = "dir"
  /\ valPc' = "access"
  /\ UNCHANGED <<fsVars, ctlVars, updateVars, logVars, refreshVars, cvVars, rawCatalog,
                 valRun, valIdx, valMissing, valError>>

\* One round of the first loop, and after the last round the test of
\* missingCategories.
ValidateAccessFile ==
  /\ ValidationResumes
  /\ valPc = "access"
  /\ LET c == Categories[valIdx]
         missing == IF catalogFiles[c].exists THEN valMissing ELSE Append(valMissing, c)
     IN  /\ valMissing' = missing
         /\ IF valIdx < Len(Categories)
              THEN /\ valIdx' = valIdx + 1
                   /\ UNCHANGED <<valPc, valError, pc, outcome>>
              ELSE IF missing # <<>>
                THEN /\ ValidationRejects([kind |-> "missing", categories |-> missing,
                                           pkg |-> ""])
                     /\ valIdx' = valIdx
                ELSE /\ valPc' = "format"
                     /\ valIdx' = 1
                     /\ UNCHANGED <<valError, pc, outcome>>
  /\ UNCHANGED <<fsVars, cmd, runs, prev, updateVars, logVars, refreshVars, cvVars,
                 rawCatalog, valRun>>

\* One round of the second loop: the file is read, parsed and checked.
ValidateFormat ==
  /\ ValidationResumes
  /\ valPc = "format"
  /\ LET c == Categories[valIdx]
         error == FormatError(c, ParsedContent(c))
     IN  IF error # NoError
           THEN /\ ValidationRejects(error)
                /\ valIdx' = valIdx
           ELSE /\ valPc' = IF valIdx < Len(Categories) THEN "format" ELSE "ok"
                /\ valIdx' = IF valIdx < Len(Categories) THEN valIdx + 1 ELSE valIdx
                /\ UNCHANGED <<valError, pc, outcome>>
  /\ UNCHANGED <<fsVars, cmd, runs, prev, updateVars, logVars, refreshVars, cvVars,
                 rawCatalog, valRun, valMissing>>

\* The list command: prints config.categories.
ListCommand ==
  /\ CLIReady
  /\ StartCommand([NoCmd EXCEPT !.name = "list", !.categories = Categories])
  /\ pc' = "done"
  /\ outcome' = "ok"
  /\ prompts' = <<>>
  /\ fsLog' = <<>>
  /\ console' = <<"available categories">> \o Categories
  /\ UNCHANGED <<fsVars, updateVars, refreshVars, cvVars, valVars>>

\* The category directories validateCatalog is applied to: each file is
\* missing, a catalog, or any other document.
InitValidate ==
  /\ manifestFile = NoManifestFile
  /\ catalogFiles \in [CategorySet -> {NoFile, [exists |-> TRUE, json |-> <<>>],
                                       [exists |-> TRUE, json |-> <<<<"react", "1.5.0">>>>]}]
  /\ rawCatalog \in [CategorySet -> RawDocuments \cup {NoRaw}]
  /\ \A c \in CategorySet :
       rawCatalog[c] # NoRaw => catalogFiles[c] = [exists |-> TRUE, json |-> <<>>]
  /\ InitLastCommand

NextValidate ==
  \/ CreateCLI
  \/ ListCommand
  \/ ValidateAccessDir
  \/ ValidateAccessFile
  \/ ValidateFormat

SpecValidate == InitValidate /\ [][NextValidate]_vars

\* ------------------------------------------------------------------------
\* DependencyManager.add
\* ------------------------------------------------------------------------
\* The items of the command line, as the words and colons they are made of.
ItemTokens ==
     ("core" :> <<"core">>)
  @@ ("ui" :> <<"ui">>)
  @@ ("ui:react" :> <<"ui", ":", "react">>)
  @@ ("core:lodash" :> <<"core", ":", "lodash">>)

\* The items an add command is given.
Items == {"core", "ui", "ui:react"}

RECURSIVE ItemListsUpTo(_)
ItemListsUpTo(n) ==
  IF n = 1 THEN {<<i>> : i \in Items}
  ELSE ItemListsUpTo(n - 1) \cup
       {Append(l, i) : l \in {x \in ItemListsUpTo(n - 1) : Len(x) = n - 1}, i \in Items}

\* config.defaultBehavior, as the installations of the model configure it.
DefaultBehaviors ==
  {("core" :> "dev") @@ ("ui" :> "peer"),
   ("core" :> "dependencies") @@ ("ui" :> "unset")}

\* item.includes(':')
IncludesColon(item) == \E i \in 1..Len(ItemTokens[item]) : ItemTokens[item][i] = ":"

\* item.split(':')
SplitOnColon(item) == SelectSeq(ItemTokens[item], LAMBDA t : t # ":")

\* The bucket a whole-category item goes to.
ActualTargetType(targetType, item, defaultBehavior) ==
  IF targetType = "dependencies" /\ defaultBehavior[item] # "unset"
    THEN IF defaultBehavior[item] = "dev" THEN "devDependencies"
         ELSE IF defaultBehavior[item] = "peer" THEN "peerDependencies"
         ELSE "dependencies"
    ELSE targetType

\* packageJson[depType] = packageJson[depType] || {}
EnsureBucket(m, depType) ==
  [m EXCEPT ![depType] = [present |-> TRUE, entries |-> @.entries]]

\* Object.assign(target, source)
RECURSIVE ObjectAssign(_, _)
ObjectAssign(target, source) ==
  IF source = <<>> THEN target
  ELSE ObjectAssign(Put(target, source[1][1], source[1][2]), Tail(source))

\* Variant of AfterLoadCatalog: a category that cannot be loaded is skipped.
AfterLoadCatalog_SkipsItem(loaded) == "add"

\* Where add goes after loadCatalog: on with the item, or out with the
\* error loadCatalog throws.
AfterLoadCatalog(loaded) == IF loaded THEN "add" ELSE "done"

\* add, from loadPackageJson to the start of the loop over items.
AddStart ==
  \E items \in ItemListsUpTo(MaxItems), targetType \in DepTypeSet,
     defaultBehavior \in DefaultBehaviors :
    /\ StartCommand([NoCmd EXCEPT !.name = "add", !.items = items,
                                  !.targetType = targetType,
                                  !.defaultBehavior = defaultBehavior])
    /\ prompts' = <<>>
    /\ console' = <<>>
    /\ cursor' = 1
    /\ updates' = NoUpdates
    /\ hasUpdates' = FALSE
    /\ IF manifestFile.exists
         THEN /\ packageJson' = EnsureBucket(manifestFile.json, targetType)
              /\ fsLog' = <<[op |-> "read", file |-> "package.json"]>>
              /\ pc' = "add"
              /\ outcome' = "running"
         ELSE /\ packageJson' = NoManifest
              /\ fsLog' = <<[op |-> "readFail", file |-> "package.json"]>>
              /\ pc' = "done"
              /\ outcome' = "error"
    /\ UNCHANGED <<fsVars, refreshVars, cvVars, valVars>>

\* One round of the loop over items.
AddItem ==
  /\ cmd.name = "add"
  /\ pc = "add"
  /\ cursor <= Len(cmd.items)
  /\ LET item == cmd.items[cursor]
         category == SplitOnColon(item)[1]
         loaded == catalogFiles[category].exists
         catalog == catalogFiles[category].json
         after == AfterLoadCatalog(loaded)
     IN  /\ pc' = after
         /\ outcome' = IF after = "done" THEN "error" ELSE "running"
         /\ fsLog' = Append(fsLog, [op |-> IF loaded THEN "read" ELSE "readFail",
                                    file |-> category])
         /\ IF ~loaded
              THEN UNCHANGED <<packageJson, console>>
            ELSE IF IncludesColon(item)
              THEN LET packageName == SplitOnColon(item)[2] IN
                   IF Truthy(catalog, packageName)
                     THEN /\ packageJson' = SetDeclaration(packageJson, cmd.targetType,
                                                           packageName,
                                                           Get(catalog, packageName))
                          /\ console' = Append(console, "added " \o packageName)
                     ELSE /\ packageJson' = packageJson
                          /\ console' = Append(console, "package not found " \o packageName)
            ELSE LET actualTargetType ==
                       ActualTargetType(cmd.targetType, item, cmd.defaultBehavior)
                     ensured == EnsureBucket(packageJson, actualTargetType)
                 IN  /\ packageJson' =
                          [ensured EXCEPT ![actualTargetType].entries =
                                            ObjectAssign(@, catalog)]
                     /\ console' = Append(console, "added category " \o item)
  /\ cursor' = cursor + 1
  /\ UNCHANGED <<fsVars, cmd, runs, prev, updates, hasUpdates, prompts, startManifest,
                 startCatalogs, refreshVars, cvVars, valVars>>

\* savePackageJson at the end of add
AddSave ==
  /\ cmd.name = "add"
  /\ pc = "add"
  /\ cursor > Len(cmd.items)
  /\ manifestFile' = [exists |-> TRUE, json |-> packageJson]
  /\ fsLog' = Append(fsLog, [op |-> "write", file |-> "package.json"])
  /\ console' = Append(console, "package.json updated")
  /\ pc' = "done"
  /\ outcome' = "ok"
  /\ UNCHANGED <<catalogFiles, backupFiles, cmd, runs, prev, updateVars, prompts,
                 startManifest, startCatalogs, refreshVars, cvVars, valVars>>

\* The show command: loadCatalog, and the catalog or the error is printed.
Show ==
  \E category \in CategorySet :
    /\ StartCommand([NoCmd EXCEPT !.name = "show", !.categories = <<category>>])
    /\ prompts' = <<>>
    /\ fsLog' = <<[op |-> IF catalogFiles[category].exists THEN "read" ELSE "readFail",
                   file |-> category]>>
    /\ console' = IF catalogFiles[category].exists
                    THEN <<category>> ELSE <<"category not found " \o category>>
    /\ pc' = "done"
    /\ outcome' = "ok"
    /\ UNCHANGED <<fsVars, updateVars, refreshVars, cvVars, valVars>>

\* The projects add and update are run in: one command per project.
InitManifest ==
  /\ manifestFile \in ManifestFilesOver({"react"}, {"1.0.0", "2.0.0", "latest"}, MaxManifestEntries)
  /\ catalogFiles \in CatalogStatesOver(Pkgs, {"1.5.0"}, MaxCatalogEntries)
  /\ rawCatalog = [c \in CategorySet |-> NoRaw]
  /\ InitLastCommand

NextManifest ==
  \/ AddStart
  \/ AddItem
  \/ AddSave
  \/ Show
  \/ UpdateScan
  \/ UpdatePrompt
  \/ UpdateNoPrompt
  \/ UpdateSave

SpecManifest == InitManifest /\ [][NextManifest]_vars

\* ------------------------------------------------------------------------
\* The command line program: createCLI, then cli.run
\* ------------------------------------------------------------------------
\* program.parse(argv) calls the action of the command named on the command
\* line.
CLIUpdate == CLIReady /\ UpdateScan

CLIAdd == CLIReady /\ AddStart

CLIShow == CLIReady /\ Show

CLICheckUpdates == CLIReady /\ CheckUpdatesStart

CLIUpdateCatalog == CLIReady /\ UpdateCatalogStart

InitCLI ==
  /\ manifestFile \in ManifestFilesOver({"react"}, {"1.0.0", "2.0.0"}, MaxCLIManifestEntries)
  /\ catalogFiles \in CatalogStatesOver({"react"}, {"1.5.0"}, MaxCatalogEntries)
  /\ rawCatalog = [c \in CategorySet |-> NoRaw]
  /\ InitLastCommand

NextCLI ==
  \/ CreateCLI
  \/ ValidateAccessDir
  \/ ValidateAccessFile
  \/ ValidateFormat
  \/ ListCommand
  \/ CLIUpdate
  \/ UpdatePrompt
  \/ UpdateNoPrompt
  \/ UpdateSave
  \/ CLIAdd
  \/ AddItem
  \/ AddSave
  \/ CLIShow
  \/ CLICheckUpdates
  \/ CheckCategory
  \/ CheckSummary
  \/ CLIUpdateCatalog
  \/ UpdateCategoryRead
  \/ LookupOk
  \/ LookupFail
  \/ BackupCatalog
  \/ WriteCatalog
  \/ NoCatalogChange

SpecCLI == InitCLI /\ [][NextCLI]_vars

\* ------------------------------------------------------------------------
\* File writes that fail
\* ------------------------------------------------------------------------
\* fs.copyFile throws: the catch at the bottom of updateCategory prints
\* "File <category>.json not found" and updateCategory returns.
BackupCatalogFail ==
  /\ cmd.name = "update-catalog"
  /\ pc = "lookup"
  /\ cursor > Len(deps)
  /\ NeedsWrite(updateCount)
  /\ fsLog' = Append(fsLog, [op |-> "copyFail", file |-> CurrentCategory])
  /\ console' = Append(console, "file not found " \o CurrentCategory)
  /\ NextCategory
  /\ UNCHANGED <<fsVars, cmd, runs, prev, updateVars, prompts, startManifest,
                 startCatalogs, deps, updatedDeps, updateCount, lookups, cvVars, valVars>>

\* fs.writeFile throws after the backup was made: the same catch.
WriteCatalogFail ==
  /\ cmd.name = "update-catalog"
  /\ pc = "write"
  /\ fsLog' = Append(fsLog, [op |-> "writeFail", file |-> CurrentCategory])
  /\ console' = Append(console, "file not found " \o CurrentCategory)
  /\ NextCategory
  /\ UNCHANGED <<fsVars, cmd, runs, prev, updateVars, prompts, startManifest,
                 startCatalogs, deps, updatedDeps, updateCount, lookups, cvVars, valVars>>

\* savePackageJson rejects at the end of update: update rejects.
UpdateSaveFail ==
  /\ cmd.name = "update"
  /\ pc = "apply"
  /\ cursor > Len(Pending(updates))
  /\ fsLog' = Append(fsLog, [op |-> "writeFail", file |-> "package.json"])
  /\ pc' = "done"
  /\ outcome' = "error"
  /\ UNCHANGED <<fsVars, cmd, runs, prev, updateVars, prompts, console, startManifest,
                 startCatalogs, refreshVars, cvVars, valVars>>

\* savePackageJson rejects at the end of add: add rejects.
AddSaveFail ==
  /\ cmd.name = "add"
  /\ pc = "add"
  /\ cursor > Len(cmd.items)
  /\ fsLog' = Append(fsLog, [op |-> "writeFail", file |-> "package.json"])
  /\ pc' = "done"
  /\ outcome' = "error"
  /\ UNCHANGED <<fsVars, cmd, runs, prev, updateVars, prompts, console, startManifest,
                 startCatalogs, refreshVars, cvVars, valVars>>

NextFaults ==
  \/ NextManifest
  \/ NextRefresh
  \/ BackupCatalogFail
  \/ WriteCatalogFail
  \/ UpdateSaveFail
  \/ AddSaveFail

SpecFaults == InitManifest /\ [][NextFaults]_vars

\* ========================================================================
\* Properties
\* ========================================================================
\* The declaration of pkg in bucket depType of manifest m.
Declared(m, depType, pkg) ==
  IF m[depType].present /\ Has(m[depType].entries, pkg)
    THEN Get(m[depType].entries, pkg)
    ELSE "(none)"

\* The answers that mean yes.
Affirmative == {"y", "Y"}

AnsweredYes(depType, pkg) ==
  \E i \in 1..Len(prompts) :
    /\ prompts[i].depType = depType
    /\ prompts[i].pkg = pkg
    /\ prompts[i].answer \in Affirmative

ManifestWritten == \E i \in 1..Len(fsLog) : fsLog[i] = [op |-> "write", file |-> "package.json"]

PendingSet == {Pending(updates)[i] : i \in 1..Len(Pending(updates))}

\* C1: update with dryRun = true never writes the manifest file and never
\* issues a confirmation prompt, however many pending changes are downgrades.
C1_DryRunWritesNothingAsksNothing ==
  (cmd.name = "update" /\ cmd.dryRun) =>
    /\ prompts = <<>>
    /\ ~ManifestWritten
    /\ manifestFile = startManifest

C1_Witness ==
  /\ cmd.name = "update"
  /\ cmd.dryRun
  /\ pc = "done"
  /\ Cardinality({x \in PendingSet : x.info.isDowngrade}) >= 2

\* C2: in a non-dry-run update a pending downgrade reaches the manifest (in
\* memory or saved) only if a prompt for that package was answered yes; after
\* any other answer the saved declaration is the one before the update.
C2_DowngradeNeedsYes ==
  (cmd.name = "update" /\ ~cmd.dryRun) =>
    /\ \A x \in PendingSet :
         (x.info.isDowngrade /\ ~AnsweredYes(x.depType, x.pkg)) =>
           /\ Declared(packageJson, x.depType, x.pkg) = x.info.current
           /\ Declared(manifestFile.json, x.depType, x.pkg)
                = Declared(startManifest.json, x.depType, x.pkg)
    /\ \A i \in 1..Len(prompts) :
         prompts[i].answer \notin Affirmative =>
           Declared(manifestFile.json, prompts[i].depType, prompts[i].pkg)
             = Declared(startManifest.json, prompts[i].depType, prompts[i].pkg)

C2_Witness ==
  /\ cmd.name = "update"
  /\ ~cmd.dryRun
  /\ pc = "done"
  /\ ManifestWritten
  /\ \E x \in PendingSet :
       /\ x.info.isDowngrade
       /\ AnsweredYes(x.depType, x.pkg)
       /\ Declared(manifestFile.json, x.depType, x.pkg) = x.info.new
  /\ \E i \in 1..Len(prompts) : prompts[i].answer = "yes"

\* C3: a pending change of the peerDependencies bucket whose range is already
\* satisfied is never applied: the peer declaration stays what it was,
\* whatever the answers and whatever the isDowngrade flag.
C3_SatisfiedPeerNeverApplied ==
  /\ \A confirmed \in BOOLEAN, down \in BOOLEAN :
       ~ShouldUpdate("peerDependencies",
                     [current |-> ">=1.0.0", new |-> "1.5.0", category |-> "core",
                      isDowngrade |-> down, isRangeSatisfied |-> "true"],
                     confirmed)
  /\ cmd.name = "update" =>
       \A x \in PendingSet :
         (x.depType = "peerDependencies" /\ x.info.isRangeSatisfied = "true") =>
           /\ Declared(packageJson, x.depType, x.pkg) = x.info.current
           /\ Declared(manifestFile.json, x.depType, x.pkg) = x.info.current

C3_Witness ==
  /\ cmd.name = "update"
  /\ ~cmd.dryRun
  /\ pc = "done"
  /\ ManifestWritten
  /\ prompts # <<>>
  /\ \E x \in PendingSet :
       x.depType = "peerDependencies" /\ x.info.isRangeSatisfied = "true"

\* The previous command was a non-dry-run update that ended normally, and this
\* one is an update past its scan.
SecondUpdate ==
  /\ cmd.name = "update"
  /\ pc \in {"apply", "done"}
  /\ prev.name = "update"
  /\ ~prev.dryRun
  /\ prev.outcome = "ok"
  /\ catalogFiles = startCatalogs

\* C4 as stated: a second update, with no catalog change in between, finds no
\* pending change.
C4_SecondUpdateFindsNothing ==
  SecondUpdate => (~hasUpdates /\ console = <<"up to date">>)

\* The previous update applied every change it found: no prompt was declined
\* and no satisfied peer range was skipped.
PrevAppliedAll ==
  /\ \A i \in 1..Len(prev.prompts) : prev.prompts[i].answer \in Affirmative
  /\ \A i \in 1..Len(prev.console) :
       \A p \in Pkgs : prev.console[i] # "skipping " \o p

\* No package is declared with different versions by two catalogs.
CatalogsAgree ==
  \A p \in Pkgs : \A c1, c2 \in CategorySet :
    (/\ catalogFiles[c1].exists /\ Truthy(catalogFiles[c1].json, p)
     /\ catalogFiles[c2].exists /\ Truthy(catalogFiles[c2].json, p))
      => Get(catalogFiles[c1].json, p) = Get(catalogFiles[c2].json, p)

\* C4 (amended): a second update finds no pending change when the first one
\* applied every change it found and the catalogs agree on every package.
C4_SecondUpdateFindsNothingIfAllApplied ==
  (SecondUpdate /\ PrevAppliedAll /\ CatalogsAgree) =>
    (~hasUpdates /\ pc = "done" /\ outcome = "ok" /\ console = <<"up to date">>)

C4_Witness ==
  /\ SecondUpdate /\ PrevAppliedAll /\ CatalogsAgree
  /\ prev.prompts # <<>>
  /\ \E i \in 1..Len(prev.console) : prev.console[i] = "package.json updated"
  /\ ~hasUpdates

\* The version a declaration names: its characters without ^ ~ > = <.
NamedVersion(s) == ParseSemVer(StripPrefixChars(Chars[s]))

NamesLowerVersion(new, old) ==
  /\ old # "(none)" /\ new # "(none)"
  /\ NamedVersion(new).ok /\ NamedVersion(old).ok
  /\ CompareMain(NamedVersion(new), NamedVersion(old)) < 0

\* C9: downgrade protection: in a non-dry-run update a manifest entry is
\* replaced by a catalog version lower than the version of its declaration
\* (bare, caret/tilde or operator range) only after a prompt for that package
\* was answered yes.
C9_DowngradeProtectionEveryForm ==
  (cmd.name = "update" /\ ~cmd.dryRun) =>
    \A d \in DepTypeSet, p \in Pkgs :
      (/\ Declared(manifestFile.json, d, p) # Declared(startManifest.json, d, p)
       /\ NamesLowerVersion(Declared(manifestFile.json, d, p),
                            Declared(startManifest.json, d, p)))
        => AnsweredYes(d, p)

\* Plain versions and what they denote, written out.
PlainVersion ==
     ("1.0.0" :> <<1, 0, 0>>) @@ ("1.5.0" :> <<1, 5, 0>>) @@ ("2.0.0" :> <<2, 0, 0>>)
  @@ ("3.0.0" :> <<3, 0, 0>>) @@ ("9.0.0" :> <<9, 0, 0>>) @@ ("10.0.0" :> <<10, 0, 0>>)

\* Declarations made of prefix characters and a version: the version left
\* when the prefix characters are removed.
CleanedVersion ==
  PlainVersion
  @@ ("^1.5.0" :> <<1, 5, 0>>) @@ ("^2.0.0" :> <<2, 0, 0>>) @@ ("~2.0.0" :> <<2, 0, 0>>)
  @@ (">=1.0.0" :> <<1, 0, 0>>) @@ (">=2.0.0" :> <<2, 0, 0>>) @@ (">1.5.0" :> <<1, 5, 0>>)
  @@ ("<2.0.0" :> <<2, 0, 0>>) @@ ("<=1.5.0" :> <<1, 5, 0>>)

\* Operator ranges: the operator and the version it bounds.
OperatorRange ==
     (">=1.0.0" :> <<">=", <<1, 0, 0>>>>) @@ (">=2.0.0" :> <<">=", <<2, 0, 0>>>>)
  @@ (">1.5.0" :> <<">", <<1, 5, 0>>>>) @@ ("<2.0.0" :> <<"<", <<2, 0, 0>>>>)
  @@ ("<=1.5.0" :> <<"<=", <<1, 5, 0>>>>)

\* Semantic-version ordering of two triples
Greater(a, b) ==
  \/ a[1] > b[1]
  \/ a[1] = b[1] /\ a[2] > b[2]
  \/ a[1] = b[1] /\ a[2] = b[2] /\ a[3] > b[3]

\* Whether version t lies in the range r = <<operator, bound>>.
InRange(t, r) ==
  CASE r[1] = ">=" -> ~Greater(r[2], t)
    [] r[1] = "<=" -> ~Greater(t, r[2])
    [] r[1] = ">"  -> Greater(t, r[2])
    [] r[1] = "<"  -> Greater(r[2], t)

\* The declarations that start with one of >=, <=, > and <.
RangeOperatorDeclarations ==
  {">=1.0.0", ">=2.0.0", ">1.5.0", "<2.0.0", "<=1.5.0", ">=latest"}

\* C5: when current starts with >=, <=, > or <, compareVersions returns
\* isDowngrade = false and isRangeSatisfied = whether the target version
\* satisfies the range current expresses.
C5_RangeBranch ==
  (pc = "done" /\ cvCurrent \in RangeOperatorDeclarations) =>
    /\ ~cvResult.threw
    /\ ~cvResult.isDowngrade
    /\ cvResult.isRangeSatisfied \in {"true", "false"}
    /\ cvResult.isRangeSatisfied = "true" <=>
         /\ cvTarget \in DOMAIN PlainVersion
         /\ cvCurrent \in DOMAIN OperatorRange
         /\ InRange(PlainVersion[cvTarget], OperatorRange[cvCurrent])

C5_Witness ==
  /\ pc = "done"
  /\ cvCurrent = "<2.0.0"
  /\ cvTarget = "1.5.0"
  /\ cvResult.isRangeSatisfied = "true"

\* The bare and caret/tilde-prefixed versions.
BareOrCaretTilde == DOMAIN PlainVersion \cup {"^1.5.0", "^2.0.0", "~2.0.0"}

\* C6: when current is a bare or caret/tilde-prefixed version, compareVersions
\* returns isDowngrade = true exactly when current without its prefix
\* characters is greater than target without its prefix characters, and
\* isRangeSatisfied undefined; equal versions give isDowngrade = false.
C6_BareBranch ==
  (pc = "done" /\ cvCurrent \in BareOrCaretTilde /\ cvTarget \in DOMAIN CleanedVersion) =>
    /\ ~cvResult.threw
    /\ cvResult.isRangeSatisfied = "undefined"
    /\ cvResult.isDowngrade <=>
         Greater(CleanedVersion[cvCurrent], CleanedVersion[cvTarget])

C6_Witness ==
  /\ pc = "done"
  /\ cvCurrent = "10.0.0"
  /\ cvTarget = "9.0.0"
  /\ cvResult.isDowngrade

\* The lookups this command made for category c, in order.
LookupsOf(c) == SelectSeq(lookups, LAMBDA l : l.category = c)

\* updateCategory has finished the lookup loop of the category in deps.
LoopFinished == pc \in {"write", "read", "done"} \/ (pc = "lookup" /\ cursor > Len(deps))

\* The category whose catalog is in deps: the last one read.
LoadedCategories ==
  {c \in CategorySet :
     \E i \in 1..Len(fsLog) :
       /\ fsLog[i] = [op |-> "read", file |-> c]
       /\ \A j \in (i + 1)..Len(fsLog) : fsLog[j].op # "read"}

\* C7: updateCategory looks every package up in declaration order; a package
\* whose lookup succeeds is mapped to the version returned, one whose lookup
\* fails keeps its version; a failure does not stop the later lookups; the
\* resulting catalog has exactly the package names of the original.
C7_LookupFailureIsNotFatal ==
  cmd.name = "update-catalog" =>
    \A c \in LoadedCategories :
      LET ls == LookupsOf(c) IN
      /\ Len(ls) <= Len(deps)
      /\ Len(updatedDeps) = Len(ls)
      /\ \A i \in 1..Len(ls) :
           /\ ls[i].pkg = deps[i][1]
           /\ updatedDeps[i][1] = deps[i][1]
           /\ updatedDeps[i][2] = IF ls[i].ok THEN ls[i].version ELSE deps[i][2]
      /\ LoopFinished => Len(ls) = Len(deps)
      /\ (fsLog # <<>> /\ fsLog[Len(fsLog)] = [op |-> "write", file |-> c]) =>
           catalogFiles[c].json = updatedDeps

C7_Witness ==
  /\ cmd.name = "update-catalog"
  /\ LoopFinished
  /\ Len(deps) = 2
  /\ Len(lookups) >= 2
  /\ ~lookups[Len(lookups) - 1].ok
  /\ lookups[Len(lookups)].ok
  /\ lookups[Len(lookups)].version # lookups[Len(lookups)].was
  /\ fsLog[Len(fsLog)].op = "write"

\* updateCategory is through with category c.
Processed(c) ==
  \E i \in 1..Len(cmd.categories) :
    cmd.categories[i] = c /\ (i < catIdx \/ pc = "done")

\* A looked-up version of category c differs from its catalog version.
VersionChanged(c) ==
  \E i \in 1..Len(lookups) :
    /\ lookups[i].category = c
    /\ lookups[i].ok
    /\ lookups[i].version # lookups[i].was

Logged(op, c) == \E i \in 1..Len(fsLog) : fsLog[i] = [op |-> op, file |-> c]

\* C8: updateCategory writes the catalog file exactly when a looked-up version
\* differs from its catalog version; the backup is made before the write and
\* holds the content the file had before; with no change there is neither a
\* backup nor a write.
C8_BackupThenWriteIffChanged ==
  cmd.name = "update-catalog" =>
    /\ \A c \in CategorySet :
         /\ Processed(c) => (Logged("write", c) <=> VersionChanged(c))
         /\ Logged("write", c) => VersionChanged(c)
         /\ (Processed(c) /\ ~VersionChanged(c)) =>
              /\ ~Logged("copy", c)
              /\ ~Logged("write", c)
              /\ catalogFiles[c] = startCatalogs[c]
         /\ Logged("copy", c) => backupFiles[c] = startCatalogs[c]
    /\ \A i \in 1..Len(fsLog) :
         fsLog[i].op = "write" =>
           i > 1 /\ fsLog[i - 1] = [op |-> "copy", file |-> fsLog[i].file]

C8_Witness ==
  /\ cmd.name = "update-catalog"
  /\ pc = "done"
  /\ Len(cmd.categories) = 2
  /\ Logged("write", "core")
  /\ Processed("ui") /\ startCatalogs["ui"].exists /\ ~Logged("copy", "ui")
  /\ backupFiles["core"] # catalogFiles["core"]

\* C10: once a category file or the manifest cannot be read, the command does
\* nothing more: no later item or category is processed, no file is written.
C10_ReadFailureAbortsCommand ==
  \A i \in 1..Len(fsLog) : fsLog[i].op = "readFail" => i = Len(fsLog)


\* ------------------------------------------------------------------------
\* Catalog validation
\* ------------------------------------------------------------------------
\* The file of category c holds a JSON object whose every value is a string.
ObjectOfStrings(c) ==
  /\ catalogFiles[c].exists
  /\ ParsedContent(c).kind = "object"
  /\ \A i \in 1..Len(ParsedContent(c).entries) : ParsedContent(c).entries[i][2] = "string"

FormatErrors == {"invalidJson", "notObject", "notString"}

\* C12: validateCatalog succeeds only if every category file holds an object
\* whose values are all strings; a file holding an array, null, a primitive
\* or a non-string value makes it fail, with an error that names that
\* category.
C12_ValidationAcceptsOnlyObjectsOfStrings ==
  /\ valPc = "ok" => \A c \in CategorySet : ObjectOfStrings(c)
  /\ (valPc = "rejected" /\ valError.kind \in FormatErrors) =>
       /\ Len(valError.categories) = 1
       /\ ~ObjectOfStrings(valError.categories[1])


\* The outcome of validateCatalog is known.
ValidationSettled == valPc \in {"ok", "rejected"}

\* A command action begins in this step.
CommandBegins == runs' = runs + 1

\* C11: validation is fail-fast: the outcome of the validateCatalog call of
\* createCLI is settled before any command action begins, and once it has
\* failed no command action reads or writes a catalog or the manifest.
C11_ValidationSettledBeforeCommands ==
  [][/\ CommandBegins => ValidationSettled
     /\ valPc = "rejected" => fsLog' = fsLog]_vars

\* A process whose validation failed has written a file all the same.
WroteDespiteFailedValidation ==
  /\ valPc = "rejected"
  /\ \E i \in 1..Len(fsLog) : fsLog[i].op = "write"


\* ------------------------------------------------------------------------
\* Failed writes
\* ------------------------------------------------------------------------
WriteFailures == {"writeFail", "copyFail"}

\* C13: a failed write of the manifest (update, add) or a failed backup or
\* write of a catalog file (updateCategory) is fatal: the command ends there
\* with an error outcome, and no further category is processed.
C13_FailedWriteIsFatal ==
  \A i \in 1..Len(fsLog) :
    fsLog[i].op \in WriteFailures =>
      /\ i = Len(fsLog)
      /\ pc = "done"
      /\ outcome = "error"

\* The part of C13 that is about the manifest.
FailedManifestWriteIsFatal ==
  \A i \in 1..Len(fsLog) :
    (fsLog[i].op \in WriteFailures /\ fsLog[i].file = "package.json") =>
      /\ i = Len(fsLog)
      /\ pc = "done"
      /\ outcome = "error"


\* ------------------------------------------------------------------------
\* Malformed versions
\* ------------------------------------------------------------------------
\* The strings that are a version once their prefix characters are removed,
\* or a range made of an operator and a version.
WellFormed == DOMAIN CleanedVersion

\* C14: compareVersions fails with a version-parse error whenever current
\* or target is not a well-formed version or range, in the range branch as
\* in the bare/caret/tilde branch; it returns no relation for such input.
C14_MalformedInputThrows ==
  (pc = "done" /\ (cvCurrent \notin WellFormed \/ cvTarget \notin WellFormed)) =>
    cvResult.threw

\* The part of C14 that is about the bare/caret/tilde branch.
MalformedInputThrowsOutsideRanges ==
  (/\ pc = "done"
   /\ cvCurrent \notin RangeOperatorDeclarations
   /\ (cvCurrent \notin WellFormed \/ cvTarget \notin WellFormed)) =>
    cvResult.threw


\* ------------------------------------------------------------------------
\* What update leaves in the manifest
\* ------------------------------------------------------------------------
\* The positions, in iteration order, of the categories whose catalog declared
\* pkg with a version other than current when the command started.
Differing(pkg, current) ==
  {i \in 1..Len(Categories) :
     /\ startCatalogs[Categories[i]].exists
     /\ Has(startCatalogs[Categories[i]].json, pkg)
     /\ Get(startCatalogs[Categories[i]].json, pkg) # current}

LastDiffering(pkg, current) ==
  CHOOSE i \in Differing(pkg, current) : \A j \in Differing(pkg, current) : j <= i

\* A range declaration that the version already satisfies.
AlreadySatisfied(current, version) ==
  /\ current \in DOMAIN OperatorRange
  /\ version \in DOMAIN PlainVersion
  /\ InRange(PlainVersion[version], OperatorRange[current])

\* What the claim says an entry of the manifest becomes.
ReconciledDeclaration(depType, pkg, current) ==
  IF Differing(pkg, current) = {} THEN current
  ELSE LET version == Get(startCatalogs[Categories[LastDiffering(pkg, current)]].json, pkg)
       IN  IF depType = "peerDependencies" /\ AlreadySatisfied(current, version)
             THEN current
             ELSE version

ReconciledBucket(depType) ==
  LET b == startManifest.json[depType] IN
  [present |-> b.present,
   entries |-> [i \in 1..Len(b.entries) |->
                  <<b.entries[i][1],
                    ReconciledDeclaration(depType, b.entries[i][1], b.entries[i][2])>>]]

\* An update that was no dry run has ended normally with every confirmation
\* accepted.
UpdateDoneAllAccepted ==
  /\ cmd.name = "update"
  /\ ~cmd.dryRun
  /\ pc = "done"
  /\ outcome = "ok"
  /\ \A i \in 1..Len(prompts) : prompts[i].answer \in Affirmative

\* C15: after a non-dry-run update with every confirmation accepted, each
\* manifest entry that some catalog declares with a textually different
\* version holds the version of the last such category in iteration order,
\* peer entries whose range is already satisfied excepted; every other entry
\* is unchanged.
C15_LastDifferingCategoryWins ==
  UpdateDoneAllAccepted =>
    /\ manifestFile.exists
    /\ \A depType \in DepTypeSet : manifestFile.json[depType] = ReconciledBucket(depType)

C15_Witness ==
  /\ UpdateDoneAllAccepted
  /\ startCatalogs["core"].exists /\ startCatalogs["core"].json = <<<<"react", "1.5.0">>>>
  /\ startCatalogs["ui"].exists /\ startCatalogs["ui"].json = <<<<"react", "3.0.0">>>>
  /\ Declared(startManifest.json, "dependencies", "react") = "2.0.0"
  /\ Declared(manifestFile.json, "dependencies", "react") = "3.0.0"
  /\ Declared(startManifest.json, "peerDependencies", "react") = ">=1.0.0"
  /\ Declared(manifestFile.json, "peerDependencies", "react") = ">=1.0.0"


\* ------------------------------------------------------------------------
\* Pending changes of a package that several catalogs declare
\* ------------------------------------------------------------------------
\* update has built its change set.
ChangeSetBuilt ==
  /\ cmd.name = "update"
  /\ pc \in {"apply", "done"}
  /\ outcome # "error"

\* The entries of the change set for bucket depType and package pkg.
ChangesFor(depType, pkg) ==
  {i \in 1..Len(updates[depType]) : updates[depType][i][1] = pkg}

\* The entries of bucket depType as they were when the command started.
StartEntries(depType) == startManifest.json[depType].entries

\* C16 as stated: a package that several catalogs declare with versions other
\* than the current declaration has one pending change per matching category,
\* so the change set has as many entries for it as there are such categories.
C16_OneChangePerMatchingCategory ==
  ChangeSetBuilt =>
    \A depType \in DepTypeSet : \A i \in 1..Len(StartEntries(depType)) :
      LET pkg == StartEntries(depType)[i][1]
          current == StartEntries(depType)[i][2]
      IN  Cardinality(ChangesFor(depType, pkg)) = Cardinality(Differing(pkg, current))

\* C16, amended: however many categories match, the change set has a single
\* entry for the (bucket, package), that of the last matching category in
\* iteration order; it has none when no category matches.
C16_OneChangePerPackage ==
  ChangeSetBuilt =>
    \A depType \in DepTypeSet : \A i \in 1..Len(StartEntries(depType)) :
      LET pkg == StartEntries(depType)[i][1]
          current == StartEntries(depType)[i][2]
      IN  IF Differing(pkg, current) = {}
            THEN ChangesFor(depType, pkg) = {}
            ELSE /\ Cardinality(ChangesFor(depType, pkg)) = 1
                 /\ \A k \in ChangesFor(depType, pkg) :
                      /\ updates[depType][k][2].category =
                           Categories[LastDiffering(pkg, current)]
                      /\ updates[depType][k][2].current = current

C16_Witness ==
  /\ ChangeSetBuilt
  /\ Declared(startManifest.json, "dependencies", "react") = "2.0.0"
  /\ Cardinality(Differing("react", "2.0.0")) = 2
  /\ Len(updates["dependencies"]) = 1
  /\ updates["dependencies"][1][2].category = "ui"


\* ------------------------------------------------------------------------
\* When update writes the manifest
\* ------------------------------------------------------------------------
\* The pending change was applied: it was not skipped as a peer range that is
\* already satisfied, and if it was a downgrade the user said yes.
Applied(item) ==
  /\ ~(item.depType = "peerDependencies" /\ item.info.isRangeSatisfied = "true")
  /\ item.info.isDowngrade => AnsweredYes(item.depType, item.pkg)

\* C17: update writes the manifest file only if at least one pending change
\* was applied; it does not write it when every pending change was declined
\* or skipped, nor when there was none.
C17_WritesOnlyIfSomethingApplied ==
  (cmd.name = "update" /\ ManifestWritten) => \E item \in PendingSet : Applied(item)

\* The part of C17 that is about an empty change set.
NoWriteWithoutPendingChange ==
  (cmd.name = "update" /\ ManifestWritten) => PendingSet # {}


\* ------------------------------------------------------------------------
\* What add leaves in the manifest
\* ------------------------------------------------------------------------
\* add has saved the manifest.
AddSaved ==
  /\ cmd.name = "add"
  /\ pc = "done"
  /\ outcome = "ok"

\* The bucket the claim routes an item to: the bucket of the flag, or with no
\* flag the defaultBehavior bucket of a whole-category item, else dependencies.
RoutedBucket(item) ==
  IF cmd.targetType # "dependencies" THEN cmd.targetType
  ELSE IF item \in CategorySet /\ cmd.defaultBehavior[item] = "dev" THEN "devDependencies"
  ELSE IF item \in CategorySet /\ cmd.defaultBehavior[item] = "peer" THEN "peerDependencies"
  ELSE "dependencies"

RoutedBuckets == {RoutedBucket(cmd.items[i]) : i \in 1..Len(cmd.items)}

\* The category an item names.
ItemCategory == ("core" :> "core") @@ ("ui" :> "ui") @@ ("ui:react" :> "ui")

\* The packages of the catalogs the command added from.
AddedPackages ==
  UNION {Keys(startCatalogs[ItemCategory[cmd.items[i]]].json) : i \in 1..Len(cmd.items)}

\* C18: add changes only the buckets its items are routed to: in the saved
\* manifest every other bucket is exactly as before, neither modified nor
\* newly created, and the entries of a routed bucket whose package is in no
\* added catalog keep their declarations.
C18_AddChangesOnlyRoutedBuckets ==
  AddSaved =>
    /\ \A depType \in DepTypeSet \ RoutedBuckets :
         manifestFile.json[depType] = startManifest.json[depType]
    /\ \A depType \in RoutedBuckets : \A pkg \in Pkgs \ AddedPackages :
         Declared(manifestFile.json, depType, pkg)
           = Declared(startManifest.json, depType, pkg)

\* The same with the creation of an empty bucket left aside: the entries of
\* every bucket no item is routed to are as before.
AddKeepsEntriesOfOtherBuckets ==
  AddSaved =>
    /\ \A depType \in DepTypeSet \ RoutedBuckets :
         manifestFile.json[depType].entries = startManifest.json[depType].entries
    /\ \A depType \in RoutedBuckets : \A pkg \in Pkgs \ AddedPackages :
         Declared(manifestFile.json, depType, pkg)
           = Declared(startManifest.json, depType, pkg)


\* ------------------------------------------------------------------------
\* Commands that fail before they save
\* ------------------------------------------------------------------------
\* add could not load the catalog of one of its items.
AddLoadFailed ==
  /\ cmd.name = "add"
  /\ \E i \in 1..Len(fsLog) : fsLog[i].op = "readFail" /\ fsLog[i].file \in CategorySet

\* update ended with an error.
UpdateFailed ==
  /\ cmd.name = "update"
  /\ outcome = "error"

\* C19: add is all-or-nothing for the manifest file: when the catalog of any
\* item cannot be loaded the file is left exactly as it was, whatever earlier
\* items had merged in memory; and an update in which compareVersions throws
\* on a malformed version leaves the file unwritten as well.
C19_FailedCommandLeavesManifestFile ==
  (AddLoadFailed \/ UpdateFailed) =>
    /\ ~ManifestWritten
    /\ manifestFile = startManifest
    /\ pc = "done"
    /\ outcome = "error"

C19_Witness ==
  /\ AddLoadFailed
  /\ cmd.items = <<"core", "ui">>
  /\ cmd.targetType = "devDependencies"
  /\ startCatalogs["core"].json = <<<<"lodash", "1.5.0">>>>
  /\ Declared(packageJson, "devDependencies", "lodash") = "1.5.0"
  /\ Declared(manifestFile.json, "devDependencies", "lodash") = "(none)"
  /\ manifestFile.exists
  /\ pc = "done"

\* An update in which compareVersions threw.
UpdateThrew ==
  /\ UpdateFailed
  /\ startManifest.exists
  /\ Declared(startManifest.json, "dependencies", "react") = "latest"
  /\ pc = "done"

====
